---- MODULE Spec2Model ----
(***************************************************************************)
(* Model of the Area component (lib/components/area/index.js): its life    *)
(* cycle, player admission (join), eviction (quit), reconciliation         *)
(* (syncAcquiredPlayers) and bulk load/save, together with the player      *)
(* manager (the ownership Ledger) it calls.                                *)
(*                                                                         *)
(* One operation of the area is in flight at a time (cur); each promise    *)
(* boundary of the operation is one step.  The lock release that join's    *)
(* rollback fires without waiting for it stays in flight after join has    *)
(* returned (pendingRelease).  g records what the operation in flight has  *)
(* done so far; it is cleared when the operation returns.  The manager     *)
(* drops an attribution on its own only between two operations.            *)
(*                                                                         *)
(* Spec is the area with a manager that may lose locks, and a host that    *)
(* calls join when fewer than MaxPending releases are in flight;           *)
(* SpecClosed is the same area with a manager that only this area changes  *)
(* and a host that calls join at any time.  No player connects in these    *)
(* two.  SpecTwo is two areas on one manager, SpecRace an area whose host  *)
(* calls the reconciliation while a join is in flight, SpecChannel a       *)
(* running area whose players connect and disconnect.                      *)
(***************************************************************************)
EXTENDS Naturals, FiniteSets

PlayerIds == {"p1", "p2", "p3"}
NoPlayer == "none"
NoChannel == [exists |-> FALSE, members |-> {}]
Events == {"connect", "disconnect", "notify"}

\* the most fire-and-forget lock releases in flight at once
MaxPending == 1

VARIABLES
    lifecycle,            \* position in the object life cycle
    channel,              \* the channel 'area:<id>': whether it exists,
                          \* and its members
    players,              \* keys of this.players
    playerEventHandlers,  \* this.playerEventHandlers: id -> recorded events
    listening,            \* id -> events with an area handler attached to
                          \* the player object now held under that id
    acquired,             \* ids the player manager attributes to this area
    pendingRelease,       \* id -> releasePlayer calls of join's rollback
                          \* that have not settled yet
    cur,                  \* the operation in flight and its position
    g,                    \* what the operation in flight has done so far
    last                  \* the operation that returned last

vars == <<lifecycle, channel, players, playerEventHandlers,
          listening, acquired, pendingRelease, cur, g, last>>

areaVars == <<lifecycle, channel, players, playerEventHandlers,
              listening>>

NoEvents == [q \in PlayerIds |-> {}]

\* No reconciliation runs beside the operation in flight.
NoSync ==
    [step |-> "idle", rel |-> {}, fq |-> {}, raced |-> FALSE]

Idle ==
    [op |-> "idle", step |-> "idle", p |-> NoPlayer, force |-> FALSE,
     remove |-> FALSE, ok |-> TRUE, err |-> "none", rel |-> {}, fq |-> {},
     sv |-> {}, bg |-> NoSync]

NoLast == [op |-> "none", p |-> NoPlayer, clean |-> FALSE, stable |-> FALSE]

G0 ==
    [prev |-> NoLast, P |-> {}, H |-> NoEvents, A |-> {}, L |-> {},
     locked |-> FALSE, failedAt |-> "none",
     relCalls |-> [q \in PlayerIds |-> 0], relFailed |-> {}, fqDone |-> {},
     unsubscribed |-> {}, stopCalled |-> {}, stopFailed |-> {},
     hooks |-> {},
     saveCalls |-> {}, saveFailed |-> {}, persisted |-> "no",
     disturbed |-> FALSE]

RECURSIVE Sum(_, _)
Sum(f, S) == IF S = {} THEN 0
             ELSE LET q == CHOOSE x \in S : TRUE IN f[q] + Sum(f, S \ {q})

PendingTotal == Sum(pendingRelease, PlayerIds)

Init ==
    /\ lifecycle = "new"
    /\ channel = NoChannel
    /\ players = {}
    /\ playerEventHandlers = NoEvents
    /\ listening = NoEvents
    /\ acquired \in SUBSET PlayerIds
    /\ pendingRelease = [q \in PlayerIds |-> 0]
    /\ cur = Idle
    /\ g = G0
    /\ last = NoLast

----------------------------------------------------------------------------
(* The event table *)

\* registerPlayerEvents on one player's entry: h is the recorded events of
\* the id, l the events attached to the held object.  An event already
\* recorded is skipped.
registerPlayerEvents(h, l) ==
    [h |-> h \cup Events, l |-> l \cup (Events \ h)]

\* removePlayerEvents that detaches and erases nothing
removePlayerEventsSkipped(h, l) == [h |-> h, l |-> l]

\* removePlayerEvents on one player's entry: an event that is not recorded
\* is skipped; a recorded one is detached from the held object and erased.
removePlayerEvents(h, l) ==
    [h |-> h \ (h \cap Events), l |-> l \ (h \cap Events)]

----------------------------------------------------------------------------
(* The player manager *)

\* acquirePlayer(p, area): the lock is granted only when nobody holds it;
\* a free lock may still be refused (held elsewhere, manager unavailable).
AcquireOutcomes(p) == IF p \in acquired THEN {FALSE} ELSE {TRUE, FALSE}

\* releasePlayer(p, area): idempotent; fails only when unavailable.
Released(p) == acquired \ {p}

----------------------------------------------------------------------------
(* Calling and returning *)

Op(op, step) == [Idle EXCEPT !.op = op, !.step = step]

PlayerOp(op, step, p, force, remove) ==
    [Idle EXCEPT !.op = op, !.step = step, !.p = p,
                 !.force = force, !.remove = remove]

\* What the operation at position c keeps of the operation before it: a
\* quit remembers the join of the same player, a reconciliation the
\* reconciliation before it.
Remembered(c) ==
    IF \/ c.op = "quit" /\ last.op = "join" /\ last.p = c.p
       \/ c.op = "sync" /\ last.op = "sync"
    THEN last ELSE NoLast

\* A public method is called while no other is in flight; c is the
\* position its synchronous part leaves it in.
Call(c) ==
    /\ cur = Idle
    /\ cur' = c
    /\ g' = [G0 EXCEPT !.prev = Remembered(c), !.P = players,
                       !.H = playerEventHandlers, !.A = acquired]
    /\ last' = NoLast

Done(ok, err) == [cur EXCEPT !.step = "done", !.ok = ok, !.err = err]

At(op, step) == cur.op = op /\ cur.step = step

Return ==
    /\ cur.step = "done"
    /\ cur' = Idle
    /\ g' = G0
    /\ last' = IF cur.op = "join" /\ cur.ok /\ cur.p \notin g.P
                 THEN [op |-> "join", p |-> cur.p, clean |-> TRUE,
                       stable |-> TRUE]
               ELSE IF cur.op = "sync" /\ cur.ok
                 THEN [op |-> "sync", p |-> NoPlayer,
                       clean |-> g.relFailed = {}, stable |-> ~g.disturbed]
               ELSE NoLast
    /\ UNCHANGED <<areaVars, acquired, pendingRelease>>

Hook(name) == g' = [g EXCEPT !.hooks = @ \cup {name}]

----------------------------------------------------------------------------
(* init *)

InitCall ==
    /\ lifecycle = "new"
    /\ Call(Op("init", "hook"))
    /\ UNCHANGED <<areaVars, acquired, pendingRelease>>

InitHook ==
    /\ At("init", "hook")
    /\ Hook("onInit")
    /\ \E ok \in BOOLEAN :
          /\ cur' = Done(ok, IF ok THEN "none" ELSE "onInit")
          /\ lifecycle' = IF ok THEN "inited" ELSE lifecycle
    /\ UNCHANGED <<channel, players, playerEventHandlers, listening,
                   acquired, pendingRelease, last>>

----------------------------------------------------------------------------
(* destroy *)

\* the emptiness check with its comparison turned around
DestroyRefusedInverted == Cardinality(players) = 0

\* The emptiness check of destroy(): TRUE when destroy throws.
DestroyRefused == Cardinality(players) # 0

DestroyCall ==
    /\ lifecycle # "destroyed"
    /\ IF DestroyRefused
         THEN Call([Op("destroy", "done") EXCEPT !.ok = FALSE,
                                                 !.err = "NotEmpty"])
         ELSE Call(Op("destroy", "hook"))
    /\ UNCHANGED <<areaVars, acquired, pendingRelease>>

DestroyHook ==
    /\ At("destroy", "hook")
    /\ Hook("onDestroy")
    /\ \E ok \in BOOLEAN :
          /\ cur' = Done(ok, IF ok THEN "none" ELSE "onDestroy")
          /\ lifecycle' = IF ok THEN "destroyed" ELSE lifecycle
    /\ UNCHANGED <<channel, players, playerEventHandlers, listening,
                   acquired, pendingRelease, last>>

----------------------------------------------------------------------------
(* start *)

StartCall ==
    /\ lifecycle \in {"inited", "stopped"}
    /\ Call(Op("start", "channel"))
    /\ UNCHANGED <<areaVars, acquired, pendingRelease>>

StartChannel ==
    /\ At("start", "channel")
    /\ channel' = [exists |-> TRUE, members |-> {}]
    /\ cur' = [cur EXCEPT !.step = "players"]
    /\ UNCHANGED <<lifecycle, players, playerEventHandlers, listening,
                   acquired, pendingRelease, g, last>>

\* startPlayers: start() is called on every held player; Q.all rejects
\* when one of them fails.  F is the set of players whose start() fails.
StartPlayers ==
    /\ At("start", "players")
    /\ \E F \in SUBSET players :
          /\ cur' = IF F = {} THEN [cur EXCEPT !.step = "register"]
                     ELSE Done(FALSE, "player.start")
    /\ UNCHANGED <<lifecycle, channel, players, playerEventHandlers, listening,
                   acquired, pendingRelease, g, last>>

StartRegister ==
    /\ At("start", "register")
    /\ playerEventHandlers' =
          [q \in PlayerIds |->
              IF q \in players
              THEN registerPlayerEvents(playerEventHandlers[q], listening[q]).h
              ELSE playerEventHandlers[q]]
    /\ listening' =
          [q \in PlayerIds |->
              IF q \in players
              THEN registerPlayerEvents(playerEventHandlers[q], listening[q]).l
              ELSE listening[q]]
    /\ cur' = [cur EXCEPT !.step = "hook"]
    /\ UNCHANGED <<lifecycle, channel, players, acquired,
                   pendingRelease, g, last>>

StartHook ==
    /\ At("start", "hook")
    /\ Hook("onStart")
    /\ \E ok \in BOOLEAN :
          /\ cur' = Done(ok, IF ok THEN "none" ELSE "onStart")
          /\ lifecycle' = IF ok THEN "running" ELSE lifecycle
    /\ UNCHANGED <<channel, players, playerEventHandlers, listening,
                   acquired, pendingRelease, last>>

----------------------------------------------------------------------------
(* stop *)

StopCall ==
    /\ lifecycle = "running"
    /\ Call(Op("stop", "hook"))
    /\ UNCHANGED <<areaVars, acquired, pendingRelease>>

StopHook ==
    /\ At("stop", "hook")
    /\ Hook("onStop")
    /\ \E ok \in BOOLEAN :
          cur' = IF ok THEN [cur EXCEPT !.step = "unsubscribe"]
                 ELSE Done(FALSE, "onStop")
    /\ UNCHANGED <<areaVars, acquired, pendingRelease, last>>

\* The ids the loop of stop() unsubscribes.
StopUnsubscribed == players

StopUnsubscribe ==
    /\ At("stop", "unsubscribe")
    /\ playerEventHandlers' =
          [q \in PlayerIds |->
              IF q \in StopUnsubscribed
              THEN removePlayerEvents(playerEventHandlers[q], listening[q]).h
              ELSE playerEventHandlers[q]]
    /\ listening' =
          [q \in PlayerIds |->
              IF q \in StopUnsubscribed
              THEN removePlayerEvents(playerEventHandlers[q], listening[q]).l
              ELSE listening[q]]
    /\ g' = [g EXCEPT !.unsubscribed = StopUnsubscribed]
    /\ cur' = [cur EXCEPT !.step = "players"]
    /\ UNCHANGED <<lifecycle, channel, players, acquired,
                   pendingRelease, last>>

\* stop() called on one player after the other, up to the first failure
StopPlayersCalledUntilFailure(F) ==
    IF F = {} THEN players ELSE {CHOOSE q \in F : TRUE}

\* stopPlayers: the players whose stop() is called when the stop() of the
\* players in F fails: all of them, each in a Q.fcall of its own.
StopPlayersCalled(F) == players

StopPlayers ==
    /\ At("stop", "players")
    /\ \E F \in SUBSET players :
          /\ g' = [g EXCEPT !.stopCalled = StopPlayersCalled(F),
                            !.stopFailed = F]
          /\ cur' = IF F = {} THEN [cur EXCEPT !.step = "channel"]
                     ELSE Done(FALSE, "player.stop")
    /\ UNCHANGED <<lifecycle, channel, players, playerEventHandlers, listening,
                   acquired, pendingRelease, last>>

StopChannel ==
    /\ At("stop", "channel")
    /\ channel' = NoChannel
    /\ lifecycle' = "stopped"
    /\ cur' = Done(TRUE, "none")
    /\ UNCHANGED <<players, playerEventHandlers, listening,
                   acquired, pendingRelease, g, last>>

----------------------------------------------------------------------------
(* deserialize, loadPlayers *)

DeserializeCall ==
    /\ lifecycle \in {"new", "inited"}
    /\ Call(Op("deserialize", "reset"))
    /\ UNCHANGED <<areaVars, acquired, pendingRelease>>

\* loadPlayers: this.players = {} before the manager is asked.
LoadPlayersReset ==
    /\ At("deserialize", "reset")
    /\ players' = {}
    /\ listening' = NoEvents
    /\ cur' = [cur EXCEPT !.step = "load"]
    /\ UNCHANGED <<lifecycle, channel, playerEventHandlers, acquired,
                   pendingRelease, g, last>>

LoadPlayers ==
    /\ At("deserialize", "load")
    /\ \E ok \in BOOLEAN :
          /\ players' = IF ok THEN acquired ELSE players
          /\ cur' = IF ok THEN [cur EXCEPT !.step = "hook"]
                     ELSE Done(FALSE, "loadAcquiredPlayers")
    /\ UNCHANGED <<lifecycle, channel, playerEventHandlers, listening,
                   acquired, pendingRelease, g, last>>

DeserializeHook ==
    /\ At("deserialize", "hook")
    /\ Hook("onDeserialize")
    /\ \E ok \in BOOLEAN :
          /\ cur' = Done(ok, IF ok THEN "none" ELSE "onDeserialize")
          /\ lifecycle' = IF ok THEN "inited" ELSE lifecycle
    /\ UNCHANGED <<channel, players, playerEventHandlers, listening,
                   acquired, pendingRelease, last>>

----------------------------------------------------------------------------
(* join *)

\* join(p), called when fewer than MaxPending releases are in flight.
JoinCall(p) ==
    /\ lifecycle = "running"
    /\ PendingTotal < MaxPending
    /\ Call(PlayerOp("join", "acquire", p, FALSE, FALSE))
    /\ UNCHANGED <<areaVars, acquired, pendingRelease>>

\* join(p), called while MaxPending releases are in flight.
JoinCallDuringRelease(p) ==
    /\ lifecycle = "running"
    /\ PendingTotal >= MaxPending
    /\ Call(PlayerOp("join", "acquire", p, FALSE, FALSE))
    /\ UNCHANGED <<areaVars, acquired, pendingRelease>>

JoinAcquire ==
    /\ At("join", "acquire")
    /\ \E ok \in AcquireOutcomes(cur.p) :
          /\ acquired' = IF ok THEN acquired \cup {cur.p} ELSE acquired
          /\ g' = [g EXCEPT !.locked = ok]
          /\ cur' = IF ok THEN [cur EXCEPT !.step = "before"]
                     ELSE Done(FALSE, "acquirePlayer")
    /\ UNCHANGED <<areaVars, pendingRelease, last>>

\* a catch that waits for the release and throws the release's error when
\* the release fails
JoinRollbackAwaitsRelease(e) ==
    /\ players' = players \ {cur.p}
    /\ listening' = [listening EXCEPT ![cur.p] = {}]
    /\ pendingRelease' = pendingRelease
    /\ g' = [g EXCEPT !.relCalls[cur.p] = @ + 1, !.failedAt = e]
    /\ \E released \in BOOLEAN :
          cur' = Done(FALSE, IF released THEN e ELSE "releasePlayer")

\* The catch of join: the id is deleted from players when it is there, the
\* lock release is fired without waiting for it, and e is thrown again.
JoinRollback(e) ==
    /\ PendingTotal < MaxPending
    /\ players' = players \ {cur.p}
    /\ listening' = [listening EXCEPT ![cur.p] = {}]
    /\ pendingRelease' = [pendingRelease EXCEPT ![cur.p] = @ + 1]
    /\ g' = [g EXCEPT !.relCalls[cur.p] = @ + 1, !.failedAt = e]
    /\ cur' = Done(FALSE, e)

JoinBefore ==
    /\ At("join", "before")
    /\ \/ /\ cur' = [cur EXCEPT !.step = "load"]
          /\ g' = [g EXCEPT !.hooks = @ \cup {"beforeJoin"}]
          /\ UNCHANGED <<players, listening, pendingRelease>>
       \/ JoinRollback("beforeJoin")
    /\ UNCHANGED <<lifecycle, channel, playerEventHandlers, acquired, last>>

\* loadPlayer, then self.players[playerId] = player: the loaded object
\* takes the place of one held under the same id.
JoinLoad ==
    /\ At("join", "load")
    /\ \/ /\ players' = players \cup {cur.p}
          /\ listening' = [listening EXCEPT ![cur.p] = {}]
          /\ cur' = [cur EXCEPT !.step = "register"]
          /\ UNCHANGED <<pendingRelease, g>>
       \/ JoinRollback("loadPlayer")
    /\ UNCHANGED <<lifecycle, channel, playerEventHandlers, acquired, last>>

JoinRegister ==
    /\ At("join", "register")
    /\ playerEventHandlers' =
          [playerEventHandlers EXCEPT
              ![cur.p] = registerPlayerEvents(@, listening[cur.p]).h]
    /\ listening' =
          [listening EXCEPT
              ![cur.p] = registerPlayerEvents(playerEventHandlers[cur.p], @).l]
    /\ cur' = [cur EXCEPT !.step = "start"]
    /\ UNCHANGED <<lifecycle, channel, players, acquired,
                   pendingRelease, g, last>>

\* A failure after the catch of join is thrown as it is.
JoinFail(e) ==
    /\ cur' = Done(FALSE, e)
    /\ g' = [g EXCEPT !.failedAt = e]
    /\ UNCHANGED <<players, listening, pendingRelease>>

JoinPlayerStart ==
    /\ At("join", "start")
    /\ \/ /\ cur' = [cur EXCEPT !.step = "hook"]
          /\ UNCHANGED <<players, listening, pendingRelease, g>>
       \/ JoinFail("player.start")
    /\ UNCHANGED <<lifecycle, channel, playerEventHandlers, acquired, last>>

JoinHook ==
    /\ At("join", "hook")
    /\ \/ /\ cur' = Done(TRUE, "none")
          /\ g' = [g EXCEPT !.hooks = @ \cup {"onJoin"}]
          /\ UNCHANGED <<players, listening, pendingRelease>>
       \/ JoinFail("onJoin")
    /\ UNCHANGED <<lifecycle, channel, playerEventHandlers, acquired, last>>

----------------------------------------------------------------------------
(* quit *)

\* a forced path that unsubscribes and leaves the player in players
ForceQuitKeepsPlayer(p) ==
    /\ playerEventHandlers' =
          [playerEventHandlers EXCEPT
              ![p] = removePlayerEvents(@, listening[p]).h]
    /\ listening' = [listening EXCEPT ![p] = {}]
    /\ players' = players

\* a forced path that empties players and the event table
ForceQuitEvictsAll(p) ==
    /\ playerEventHandlers' = NoEvents
    /\ listening' = NoEvents
    /\ players' = {}

\* The forced path of quit on a held player.
ForceQuit(p) ==
    /\ playerEventHandlers' =
          [playerEventHandlers EXCEPT
              ![p] = removePlayerEvents(@, listening[p]).h]
    /\ listening' = [listening EXCEPT ![p] = {}]
    /\ players' = players \ {p}

\* The synchronous part of quit(p, {force, remove}).  opts.remove is read
\* first after player.stop(), and is drawn there.
QuitCall(p, force) ==
    /\ lifecycle = "running"
    /\ IF p \notin players
         THEN /\ Call(PlayerOp("quit", "done", p, force, FALSE))
              /\ UNCHANGED <<players, playerEventHandlers, listening>>
       ELSE IF force
         THEN /\ Call(PlayerOp("quit", "done", p, force, FALSE))
              /\ ForceQuit(p)
       ELSE /\ Call(PlayerOp("quit", "before", p, force, FALSE))
            /\ UNCHANGED <<players, playerEventHandlers, listening>>
    /\ UNCHANGED <<lifecycle, channel, acquired, pendingRelease>>

\* a chain that releases the lock before the save or destroy
QuitStepAfterReleasingFirst(step) ==
    CASE step = "before" -> "unsubscribe"
      [] step = "unsubscribe" -> "stop"
      [] step = "stop" -> "release"
      [] step = "release" -> "persist"
      [] step = "persist" -> "delete"
      [] step = "delete" -> "hook"

\* The promise chain of quit: the step that follows a step that succeeded.
QuitStepAfter(step) ==
    CASE step = "before" -> "unsubscribe"
      [] step = "unsubscribe" -> "stop"
      [] step = "stop" -> "persist"
      [] step = "persist" -> "release"
      [] step = "release" -> "delete"
      [] step = "delete" -> "hook"

QuitBefore ==
    /\ At("quit", "before")
    /\ g' = [g EXCEPT !.hooks = @ \cup {"beforeQuit"}]
    /\ \E ok \in BOOLEAN :
          cur' = IF ok THEN [cur EXCEPT !.step = QuitStepAfter("before")]
                 ELSE Done(FALSE, "beforeQuit")
    /\ UNCHANGED <<areaVars, acquired, pendingRelease, last>>

QuitUnsubscribe ==
    /\ At("quit", "unsubscribe")
    /\ playerEventHandlers' =
          [playerEventHandlers EXCEPT
              ![cur.p] = removePlayerEvents(@, listening[cur.p]).h]
    /\ listening' =
          [listening EXCEPT
              ![cur.p] = removePlayerEvents(playerEventHandlers[cur.p], @).l]
    /\ g' = [g EXCEPT !.unsubscribed = {cur.p}]
    /\ cur' = [cur EXCEPT !.step = QuitStepAfter("unsubscribe")]
    /\ UNCHANGED <<lifecycle, channel, players, acquired,
                   pendingRelease, last>>

QuitPlayerStop ==
    /\ At("quit", "stop")
    /\ \E ok \in BOOLEAN :
          /\ g' = [g EXCEPT !.stopCalled = {cur.p},
                            !.stopFailed = IF ok THEN @ ELSE {cur.p}]
          /\ cur' = IF ok THEN [cur EXCEPT !.step = QuitStepAfter("stop")]
                     ELSE Done(FALSE, "player.stop")
    /\ UNCHANGED <<lifecycle, channel, players, playerEventHandlers, listening,
                   acquired, pendingRelease, last>>

\* savePlayer, or player.destroy() when opts.remove is set.
QuitPersist ==
    /\ At("quit", "persist")
    /\ \E remove, ok \in BOOLEAN :
          /\ g' = [g EXCEPT
                     !.saveCalls = IF remove THEN @ ELSE {cur.p},
                     !.saveFailed = IF ok \/ remove THEN @ ELSE {cur.p},
                     !.persisted = IF ~ok THEN "failed"
                                   ELSE IF remove THEN "destroyed"
                                   ELSE "saved"]
          /\ cur' = IF ok THEN [cur EXCEPT !.step = QuitStepAfter("persist"),
                                           !.remove = remove]
                     ELSE [Done(FALSE, IF remove THEN "player.destroy"
                                       ELSE "savePlayer")
                             EXCEPT !.remove = remove]
    /\ UNCHANGED <<areaVars, acquired, pendingRelease, last>>

\* the removal follows the release whether it succeeded or not
QuitReleasedAnyway(ok) == [cur EXCEPT !.step = QuitStepAfter("release")]

\* Where quit goes on after releasePlayer has settled: a rejection skips
\* the removal and onQuit.
QuitReleased(ok) ==
    IF ok THEN [cur EXCEPT !.step = QuitStepAfter("release")]
    ELSE Done(FALSE, "releasePlayer")

QuitRelease ==
    /\ At("quit", "release")
    /\ \E ok \in BOOLEAN :
          /\ acquired' = IF ok THEN Released(cur.p) ELSE acquired
          /\ g' = [g EXCEPT !.relCalls[cur.p] = @ + 1,
                            !.relFailed = IF ok THEN @ ELSE @ \cup {cur.p}]
          /\ cur' = QuitReleased(ok)
    /\ UNCHANGED <<areaVars, pendingRelease, last>>

QuitDelete ==
    /\ At("quit", "delete")
    /\ players' = players \ {cur.p}
    /\ listening' = [listening EXCEPT ![cur.p] = {}]
    /\ cur' = [cur EXCEPT !.step = QuitStepAfter("delete")]
    /\ UNCHANGED <<lifecycle, channel, playerEventHandlers, acquired,
                   pendingRelease, g, last>>

QuitHook ==
    /\ At("quit", "hook")
    /\ g' = [g EXCEPT !.hooks = @ \cup {"onQuit"}]
    /\ \E ok \in BOOLEAN :
          cur' = Done(ok, IF ok THEN "none" ELSE "onQuit")
    /\ UNCHANGED <<areaVars, acquired, pendingRelease, last>>

----------------------------------------------------------------------------
(* syncAcquiredPlayers *)

SyncCall ==
    /\ lifecycle \in {"inited", "running", "stopped"}
    /\ Call(Op("sync", "fetch"))
    /\ UNCHANGED <<areaVars, acquired, pendingRelease>>

\* every acquired id taken for an orphaned lock
OrphanedLocksAll(L) == L

\* Acquired but not joined: the ids whose lock is released.
OrphanedLocks(L) == {q \in L : q \notin players}

\* no held id taken for orphaned local state
OrphanedPlayersNone(L) == {}

\* Joined but not acquired: the ids that are quit by force.
OrphanedPlayers(L) == {q \in players : q \notin L}

\* getAcquiredPlayerIds, and the corrections its answer launches.
SyncFetch ==
    /\ cur.op \in {"sync", "serialize"}
    /\ cur.step = "fetch"
    /\ \/ /\ cur' = [cur EXCEPT !.step = "corrections",
                                !.rel = OrphanedLocks(acquired),
                                !.fq = OrphanedPlayers(acquired)]
          /\ g' = [g EXCEPT !.L = acquired]
       \/ /\ cur' = Done(FALSE, "getAcquiredPlayerIds")
          /\ g' = [g EXCEPT !.failedAt = "getAcquiredPlayerIds"]
    /\ UNCHANGED <<areaVars, acquired, pendingRelease, last>>

SyncRelease(p) ==
    /\ cur.step = "corrections"
    /\ p \in cur.rel
    /\ cur' = [cur EXCEPT !.rel = @ \ {p}]
    /\ \E ok \in BOOLEAN :
          /\ acquired' = IF ok THEN Released(p) ELSE acquired
          /\ g' = [g EXCEPT !.relCalls[p] = @ + 1,
                            !.relFailed = IF ok THEN @ ELSE @ \cup {p}]
    /\ UNCHANGED <<areaVars, pendingRelease, last>>

SyncForceQuit(p) ==
    /\ cur.step = "corrections"
    /\ p \in cur.fq
    /\ cur' = [cur EXCEPT !.fq = @ \ {p}]
    /\ IF p \in players
         THEN ForceQuit(p)
         ELSE UNCHANGED <<players, playerEventHandlers, listening>>
    /\ g' = [g EXCEPT !.fqDone = @ \cup {p}]
    /\ UNCHANGED <<lifecycle, channel, acquired, pendingRelease, last>>

\* the corrections are not waited for
SyncNotAwaited == TRUE

\* Q.allSettled(promises): every correction has settled.
SyncSettled == cur.rel = {} /\ cur.fq = {}

SyncFinish ==
    /\ cur.step = "corrections"
    /\ SyncSettled
    /\ cur' = IF cur.op = "sync" THEN Done(TRUE, "none")
               ELSE [cur EXCEPT !.step = "save"]
    /\ UNCHANGED <<areaVars, acquired, pendingRelease, g, last>>

----------------------------------------------------------------------------
(* serialize, savePlayers *)

SerializeCall ==
    /\ lifecycle \in {"inited", "running", "stopped"}
    /\ Call(Op("serialize", "fetch"))
    /\ UNCHANGED <<areaVars, acquired, pendingRelease>>

\* the ids held when savePlayers was called
PlayersAtCall == g.P

\* Object.keys(self.players), read once the reconciliation is over.
PlayersToSave == players

\* savePlayer is called for every held player, one call after the other
\* without waiting.
SavePlayers ==
    /\ At("serialize", "save")
    /\ g' = [g EXCEPT !.saveCalls = PlayersToSave]
    /\ cur' = [cur EXCEPT !.step = "saving", !.sv = PlayersToSave]
    /\ UNCHANGED <<areaVars, acquired, pendingRelease, last>>

\* One savePlayer call settles.
SavePlayer(p) ==
    /\ At("serialize", "saving")
    /\ p \in cur.sv
    /\ cur' = [cur EXCEPT !.sv = @ \ {p}]
    /\ \E ok \in BOOLEAN :
          g' = [g EXCEPT !.saveFailed = IF ok THEN @ ELSE @ \cup {p}]
    /\ UNCHANGED <<areaVars, acquired, pendingRelease, last>>

\* the failed saves reject the bulk save
SaveRejectionsUncaught(F) == F

\* .catch(logger.error) on every savePlayer call: of the failed saves F
\* no rejection is left for the bulk save.
SaveRejections(F) == {}

\* Q.allSettled over the save calls.
SavePlayersSettled ==
    /\ At("serialize", "saving")
    /\ cur.sv = {}
    /\ cur' = IF SaveRejections(g.saveFailed) = {}
                 THEN [cur EXCEPT !.step = "hook"]
               ELSE Done(FALSE, "savePlayer")
    /\ UNCHANGED <<areaVars, acquired, pendingRelease, g, last>>

SerializeHook ==
    /\ At("serialize", "hook")
    /\ \E ok \in BOOLEAN :
          cur' = Done(ok, IF ok THEN "none" ELSE "onSerialize")
    /\ UNCHANGED <<areaVars, acquired, pendingRelease, g, last>>

----------------------------------------------------------------------------
(* The player manager outside the area's calls *)

\* A change of the manager's record that is not the answer to a call of
\* the operation in flight.
Disturb ==
    /\ last' = IF last.op = "sync" THEN [last EXCEPT !.stable = FALSE]
               ELSE last
    /\ g' = IF cur.op = "sync" THEN [g EXCEPT !.disturbed = TRUE] ELSE g

\* The release fired by join's rollback settles; its failure is logged.
PendingReleaseSettles(p) ==
    /\ pendingRelease[p] > 0
    /\ pendingRelease' = [pendingRelease EXCEPT ![p] = @ - 1]
    /\ \E ok \in BOOLEAN :
          acquired' = IF ok THEN Released(p) ELSE acquired
    /\ IF acquired' # acquired THEN Disturb ELSE UNCHANGED <<g, last>>
    /\ UNCHANGED <<areaVars, cur>>

\* The manager stops attributing p to this area (a crash, a restart or a
\* partition between this instance and the record).
LedgerLosesLock(p) ==
    /\ cur = Idle
    /\ p \in acquired
    /\ acquired' = acquired \ {p}
    /\ Disturb
    /\ UNCHANGED <<areaVars, pendingRelease, cur>>

----------------------------------------------------------------------------

\* The steps of the area's operations and of the calls they leave in flight.
AreaNext ==
    \/ InitCall \/ InitHook
    \/ DestroyCall \/ DestroyHook
    \/ StartCall \/ StartChannel \/ StartPlayers \/ StartRegister \/ StartHook
    \/ StopCall \/ StopHook \/ StopUnsubscribe \/ StopPlayers \/ StopChannel
    \/ DeserializeCall \/ LoadPlayersReset \/ LoadPlayers \/ DeserializeHook
    \/ \E p \in PlayerIds : JoinCall(p)
    \/ JoinAcquire \/ JoinBefore \/ JoinLoad \/ JoinRegister
    \/ JoinPlayerStart \/ JoinHook
    \/ \E p \in PlayerIds : \E force \in BOOLEAN : QuitCall(p, force)
    \/ QuitBefore \/ QuitUnsubscribe \/ QuitPlayerStop \/ QuitPersist
    \/ QuitRelease \/ QuitDelete \/ QuitHook
    \/ SyncCall \/ SyncFetch
    \/ \E p \in PlayerIds : SyncRelease(p)
    \/ \E p \in PlayerIds : SyncForceQuit(p)
    \/ SyncFinish
    \/ SerializeCall \/ SavePlayers
    \/ \E p \in PlayerIds : SavePlayer(p)
    \/ SavePlayersSettled \/ SerializeHook
    \/ Return
    \/ \E p \in PlayerIds : PendingReleaseSettles(p)

Next ==
    \/ AreaNext
    \/ \E p \in PlayerIds : LedgerLosesLock(p)

Spec == Init /\ [][Next]_vars

\* The manager's record changes only through the area's own calls, and the
\* host calls join whatever releases are in flight.
ClosedNext ==
    \/ AreaNext
    \/ \E p \in PlayerIds : JoinCallDuringRelease(p)

SpecClosed == Init /\ [][ClosedNext]_vars

----------------------------------------------------------------------------
(* Two areas on one player manager *)

(***************************************************************************)
(* SpecTwo runs two Area objects against one player manager.  Its          *)
(* variables players, acquired, pendingRelease and cur hold one value per  *)
(* area; each area has one operation in flight at a time, and the steps    *)
(* of the two areas interleave.  Both areas are running.                   *)
(***************************************************************************)
Areas == {"a1", "a2"}

TwoIdle ==
    [op |-> "idle", step |-> "idle", p |-> NoPlayer, ok |-> TRUE,
     err |-> "none"]

TwoInit ==
    /\ lifecycle = "running"
    /\ channel = [exists |-> TRUE, members |-> {}]
    /\ players = [a \in Areas |-> {}]
    /\ playerEventHandlers = NoEvents
    /\ listening = NoEvents
    /\ acquired = [a \in Areas |-> {}]
    /\ pendingRelease = [a \in Areas |-> [q \in PlayerIds |-> 0]]
    /\ cur = [a \in Areas |-> TwoIdle]
    /\ g = G0
    /\ last = NoLast

twoFrame == <<lifecycle, channel, playerEventHandlers, listening, g, last>>

\* acquirePlayer(p, a): granted only while no area holds the lock of p.
TwoAcquireOutcomes(p) ==
    IF \E b \in Areas : p \in acquired[b] THEN {FALSE} ELSE {TRUE, FALSE}

\* releasePlayer(p, a): the lock of p is dropped when a holds it.
TwoReleased(a, p) == [acquired EXCEPT ![a] = @ \ {p}]

TwoAt(a, op, step) == cur[a].op = op /\ cur[a].step = step

TwoStep(a, step) == cur' = [cur EXCEPT ![a].step = step]

TwoDone(a, ok, err) ==
    cur' = [cur EXCEPT ![a].step = "done", ![a].ok = ok, ![a].err = err]

TwoCall(a, op, step, p) ==
    /\ cur[a] = TwoIdle
    /\ cur' = [cur EXCEPT ![a] = [TwoIdle EXCEPT !.op = op, !.step = step,
                                                !.p = p]]

TwoReturn(a) ==
    /\ cur[a].step = "done"
    /\ cur' = [cur EXCEPT ![a] = TwoIdle]
    /\ UNCHANGED <<players, acquired, pendingRelease, twoFrame>>

TwoJoinCall(a, p) ==
    /\ TwoCall(a, "join", "acquire", p)
    /\ UNCHANGED <<players, acquired, pendingRelease, twoFrame>>

\* join goes on although acquirePlayer has failed
JoinStepAfterAcquireIgnored(ok) == "before"

\* The chain of join after acquirePlayer: its rejection is join's.
JoinStepAfterAcquire(ok) == IF ok THEN "before" ELSE "done"

TwoJoinAcquire(a) ==
    /\ TwoAt(a, "join", "acquire")
    /\ \E ok \in TwoAcquireOutcomes(cur[a].p) :
          /\ acquired' = IF ok THEN [acquired EXCEPT ![a] = @ \cup {cur[a].p}]
                         ELSE acquired
          /\ cur' = [cur EXCEPT
                       ![a].step = JoinStepAfterAcquire(ok),
                       ![a].ok = JoinStepAfterAcquire(ok) # "done",
                       ![a].err = IF JoinStepAfterAcquire(ok) = "done"
                                    THEN "acquirePlayer" ELSE "none"]
    /\ UNCHANGED <<players, pendingRelease, twoFrame>>

\* The catch of join in area a.
TwoJoinRollback(a, e) ==
    /\ Sum(pendingRelease[a], PlayerIds) < MaxPending
    /\ players' = [players EXCEPT ![a] = @ \ {cur[a].p}]
    /\ pendingRelease' = [pendingRelease EXCEPT ![a][cur[a].p] = @ + 1]
    /\ TwoDone(a, FALSE, e)

TwoJoinBefore(a) ==
    /\ TwoAt(a, "join", "before")
    /\ \/ TwoStep(a, "load") /\ UNCHANGED <<players, pendingRelease>>
       \/ TwoJoinRollback(a, "beforeJoin")
    /\ UNCHANGED <<acquired, twoFrame>>

TwoJoinLoad(a) ==
    /\ TwoAt(a, "join", "load")
    /\ \/ /\ players' = [players EXCEPT ![a] = @ \cup {cur[a].p}]
          /\ TwoStep(a, "start")
          /\ UNCHANGED pendingRelease
       \/ TwoJoinRollback(a, "loadPlayer")
    /\ UNCHANGED <<acquired, twoFrame>>

\* registerPlayerEvents, player.start() and onJoin, after the catch.
TwoJoinStart(a) ==
    /\ TwoAt(a, "join", "start")
    /\ \/ TwoDone(a, TRUE, "none")
       \/ \E e \in {"player.start", "onJoin"} : TwoDone(a, FALSE, e)
    /\ UNCHANGED <<players, acquired, pendingRelease, twoFrame>>

\* quit(p, {}) in area a; a no-op for an id that is not held.
TwoQuitCall(a, p) ==
    /\ IF p \in players[a] THEN TwoCall(a, "quit", "before", p)
       ELSE TwoCall(a, "quit", "done", p)
    /\ UNCHANGED <<players, acquired, pendingRelease, twoFrame>>

\* beforeQuit, removePlayerEvents and player.stop(), savePlayer or
\* player.destroy(): a failure ends quit.
TwoQuitBefore(a) ==
    /\ TwoAt(a, "quit", "before")
    /\ \/ TwoStep(a, QuitStepAfter("persist"))
       \/ \E e \in {"beforeQuit", "player.stop", "savePlayer",
                    "player.destroy"} : TwoDone(a, FALSE, e)
    /\ UNCHANGED <<players, acquired, pendingRelease, twoFrame>>

TwoQuitRelease(a) ==
    /\ TwoAt(a, "quit", "release")
    /\ \/ /\ acquired' = TwoReleased(a, cur[a].p)
          /\ TwoStep(a, QuitStepAfter("release"))
       \/ /\ TwoDone(a, FALSE, "releasePlayer")
          /\ UNCHANGED acquired
    /\ UNCHANGED <<players, pendingRelease, twoFrame>>

TwoQuitDelete(a) ==
    /\ TwoAt(a, "quit", "delete")
    /\ players' = [players EXCEPT ![a] = @ \ {cur[a].p}]
    /\ TwoStep(a, QuitStepAfter("delete"))
    /\ UNCHANGED <<acquired, pendingRelease, twoFrame>>

TwoQuitHook(a) ==
    /\ TwoAt(a, "quit", "hook")
    /\ \E ok \in BOOLEAN : TwoDone(a, ok, IF ok THEN "none" ELSE "onQuit")
    /\ UNCHANGED <<players, acquired, pendingRelease, twoFrame>>

\* The release fired by the rollback of a join of area a settles.
TwoPendingReleaseSettles(a, p) ==
    /\ pendingRelease[a][p] > 0
    /\ pendingRelease' = [pendingRelease EXCEPT ![a][p] = @ - 1]
    /\ \E ok \in BOOLEAN :
          acquired' = IF ok THEN TwoReleased(a, p) ELSE acquired
    /\ UNCHANGED <<players, cur, twoFrame>>

TwoNext ==
    \E a \in Areas :
        \/ \E p \in PlayerIds : TwoJoinCall(a, p)
        \/ TwoJoinAcquire(a) \/ TwoJoinBefore(a) \/ TwoJoinLoad(a)
        \/ TwoJoinStart(a)
        \/ \E p \in PlayerIds : TwoQuitCall(a, p)
        \/ TwoQuitBefore(a) \/ TwoQuitRelease(a) \/ TwoQuitDelete(a)
        \/ TwoQuitHook(a)
        \/ TwoReturn(a)
        \/ \E p \in PlayerIds : TwoPendingReleaseSettles(a, p)

SpecTwo == TwoInit /\ [][TwoNext]_vars

----------------------------------------------------------------------------
(* A reconciliation called while a join is in flight *)

(***************************************************************************)
(* SpecRace is one running area whose host does not wait for join before   *)
(* it calls syncAcquiredPlayers: cur is the join, cur.bg the               *)
(* reconciliation called while the join is in flight, and their steps      *)
(* interleave.  The next join is called when the reconciliation has        *)
(* returned.  The manager's record changes only through the area's own     *)
(* calls.                                                                  *)
(***************************************************************************)
RaceInit ==
    /\ lifecycle = "running"
    /\ channel = [exists |-> TRUE, members |-> {}]
    /\ players = {}
    /\ playerEventHandlers = NoEvents
    /\ listening = NoEvents
    /\ acquired = {}
    /\ pendingRelease = [q \in PlayerIds |-> 0]
    /\ cur = Idle
    /\ g = G0
    /\ last = NoLast

RaceJoinCall(p) ==
    /\ lifecycle = "running"
    /\ cur = Idle
    /\ cur' = PlayerOp("join", "acquire", p, FALSE, FALSE)
    /\ UNCHANGED <<areaVars, acquired, pendingRelease, g, last>>

RaceJoinReturn ==
    /\ At("join", "done")
    /\ cur' = [Idle EXCEPT !.bg = cur.bg]
    /\ g' = G0
    /\ UNCHANGED <<areaVars, acquired, pendingRelease, last>>

RaceSyncCall ==
    /\ cur.op = "join"
    /\ cur.bg.step = "idle"
    /\ cur' = [cur EXCEPT !.bg.step = "fetch"]
    /\ UNCHANGED <<areaVars, acquired, pendingRelease, g, last>>

\* getAcquiredPlayerIds and the corrections it launches; raced tells that
\* the join in flight has acquired its player and not yet inserted it.
RaceSyncFetch ==
    /\ cur.bg.step = "fetch"
    /\ \/ cur' = [cur EXCEPT !.bg = [step |-> "corrections",
                                     rel |-> OrphanedLocks(acquired),
                                     fq |-> OrphanedPlayers(acquired),
                                     raced |-> cur.step \in {"before",
                                                             "load"}]]
       \/ cur' = [cur EXCEPT !.bg.step = "done"]
    /\ UNCHANGED <<areaVars, acquired, pendingRelease, g, last>>

RaceSyncRelease(p) ==
    /\ cur.bg.step = "corrections"
    /\ p \in cur.bg.rel
    /\ cur' = [cur EXCEPT !.bg.rel = @ \ {p}]
    /\ \E ok \in BOOLEAN :
          acquired' = IF ok THEN Released(p) ELSE acquired
    /\ UNCHANGED <<areaVars, pendingRelease, g, last>>

RaceSyncForceQuit(p) ==
    /\ cur.bg.step = "corrections"
    /\ p \in cur.bg.fq
    /\ cur' = [cur EXCEPT !.bg.fq = @ \ {p}]
    /\ IF p \in players
         THEN ForceQuit(p)
         ELSE UNCHANGED <<players, playerEventHandlers, listening>>
    /\ UNCHANGED <<lifecycle, channel, acquired, pendingRelease, g, last>>

RaceSyncFinish ==
    /\ cur.bg.step = "corrections"
    /\ cur.bg.rel = {} /\ cur.bg.fq = {}
    /\ cur' = [cur EXCEPT !.bg.step = "done"]
    /\ UNCHANGED <<areaVars, acquired, pendingRelease, g, last>>

RaceSyncReturn ==
    /\ cur.bg.step = "done"
    /\ cur' = [cur EXCEPT !.bg = NoSync]
    /\ UNCHANGED <<areaVars, acquired, pendingRelease, g, last>>

RaceNext ==
    \/ \E p \in PlayerIds : RaceJoinCall(p)
    \/ JoinAcquire \/ JoinBefore \/ JoinLoad \/ JoinRegister
    \/ JoinPlayerStart \/ JoinHook
    \/ RaceJoinReturn
    \/ RaceSyncCall \/ RaceSyncFetch
    \/ \E p \in PlayerIds : RaceSyncRelease(p)
    \/ \E p \in PlayerIds : RaceSyncForceQuit(p)
    \/ RaceSyncFinish \/ RaceSyncReturn
    \/ \E p \in PlayerIds : PendingReleaseSettles(p)

SpecRace == RaceInit /\ [][RaceNext]_vars

----------------------------------------------------------------------------
(* The players' connections *)

(***************************************************************************)
(* SpecChannel is one running area, started with no player, with join     *)
(* and quit and with the connect and disconnect events of the held         *)
(* players, which may fire between any two steps.                          *)
(***************************************************************************)

\* The player object held under p emits 'connect': the handler that
\* registerPlayerEvents attached adds p to the channel.
PlayerConnects(p) ==
    /\ p \in players /\ "connect" \in listening[p]
    /\ channel.exists
    /\ channel' = [channel EXCEPT !.members = @ \cup {p}]
    /\ UNCHANGED <<lifecycle, players, playerEventHandlers, listening,
                   acquired, pendingRelease, cur, g, last>>

\* The player object held under p emits 'disconnect': the handler looks the
\* member up and makes it leave the channel.
PlayerDisconnects(p) ==
    /\ p \in players /\ "disconnect" \in listening[p]
    /\ channel.exists /\ p \in channel.members
    /\ channel' = [channel EXCEPT !.members = @ \ {p}]
    /\ UNCHANGED <<lifecycle, players, playerEventHandlers, listening,
                   acquired, pendingRelease, cur, g, last>>

\* notifyAll: the players channel.pushMessage reaches.
notifyAll == channel.members

ChannelNext ==
    \/ \E p \in PlayerIds : JoinCall(p)
    \/ JoinAcquire \/ JoinBefore \/ JoinLoad \/ JoinRegister
    \/ JoinPlayerStart \/ JoinHook
    \/ \E p \in PlayerIds : \E force \in BOOLEAN : QuitCall(p, force)
    \/ QuitBefore \/ QuitUnsubscribe \/ QuitPlayerStop \/ QuitPersist
    \/ QuitRelease \/ QuitDelete \/ QuitHook
    \/ Return
    \/ \E p \in PlayerIds : PendingReleaseSettles(p)
    \/ \E p \in PlayerIds : PlayerConnects(p)
    \/ \E p \in PlayerIds : PlayerDisconnects(p)

SpecChannel == RaceInit /\ [][ChannelNext]_vars

----------------------------------------------------------------------------
(* Properties *)

Returned(op) == cur.op = op /\ cur.step = "done"

Unsubscribed(q) == playerEventHandlers[q] = {} /\ listening[q] = {}

JoinedThenQuit ==
    /\ Returned("quit") /\ cur.ok /\ ~cur.force /\ ~cur.remove
    /\ g.prev.op = "join" /\ g.prev.p = cur.p /\ g.prev.clean

\* C1: when join(p) of a player that was not held succeeds and quit(p, {})
\* follows at once and succeeds, p is not in players, no handler of the
\* area is recorded for or attached to p, and the manager does not
\* attribute p to this area.
JoinThenQuitLeavesNothing ==
    JoinedThenQuit =>
        /\ cur.p \notin players
        /\ Unsubscribed(cur.p)
        /\ cur.p \notin acquired

JoinThenQuitWitness == JoinedThenQuit /\ g.saveCalls = {cur.p}

\* C2: a join that fails after it acquired the lock leaves p out of
\* players and has attempted a release of the lock.
FailedJoinIsRolledBack ==
    (Returned("join") /\ ~cur.ok /\ g.locked) =>
        /\ cur.p \notin players
        /\ g.relCalls[cur.p] >= 1

\* C3: when the snapshot load of join(p) fails, p is not in players, one
\* release of p's lock has been issued, and join fails with the load
\* error, whatever becomes of the release.
LoadFailureIsRolledBack ==
    (Returned("join") /\ g.failedAt = "loadPlayer") =>
        /\ cur.p \notin players
        /\ g.relCalls[cur.p] = 1
        /\ \A q \in PlayerIds \ {cur.p} : g.relCalls[q] = 0
        /\ ~cur.ok
        /\ cur.err = "loadPlayer"

\* the release has settled and failed: the manager still attributes p
LoadFailureWitness ==
    /\ Returned("join") /\ g.failedAt = "loadPlayer"
    /\ pendingRelease[cur.p] = 0
    /\ cur.p \in acquired

\* C4: destroy() fails with 'not empty' whenever players is not empty when
\* it is called, without invoking onDestroy and without changing players;
\* with no players it does not fail that way.
DestroyRefusesNonEmpty ==
    Returned("destroy") =>
        /\ g.P # {} => /\ ~cur.ok
                       /\ cur.err = "NotEmpty"
                       /\ "onDestroy" \notin g.hooks
                       /\ players = g.P
        /\ g.P = {} => cur.err # "NotEmpty"

DestroyRefusedWitness ==
    /\ Returned("destroy") /\ g.P # {} /\ lifecycle = "running"
    /\ \E q \in g.P : ~Unsubscribed(q)

\* C5: syncAcquiredPlayers() on ledger set L and local set P issues a
\* release for exactly the ids of L \ P, quits by force exactly the ids of
\* P \ L, leaves the ids of L \cap P alone, and ends with players = P \cap L.
SyncCorrectsExactly ==
    (Returned("sync") /\ cur.ok) =>
        /\ \A q \in PlayerIds :
              g.relCalls[q] = IF q \in g.L \ g.P THEN 1 ELSE 0
        /\ g.fqDone = g.P \ g.L
        /\ players = g.P \cap g.L
        /\ \A q \in g.P \cap g.L : playerEventHandlers[q] = g.H[q]

SyncScenarioWitness ==
    /\ Returned("sync") /\ cur.ok
    /\ g.L = {"p1", "p2"} /\ g.P = {"p2", "p3"}
    /\ players = {"p2"}

SyncRanAlone == Returned("sync") /\ cur.ok /\ ~g.disturbed

\* C6 as stated: after syncAcquiredPlayers() the local set equals the set
\* the manager attributes to the area (no forced removal fails), also when
\* a release fails.
SyncEqualsLedger == SyncRanAlone => players = acquired

\* C6 as amended: after syncAcquiredPlayers(), with no change of the
\* manager's record but by the run's own releases, the local set is the
\* manager's set without the ids whose release failed; those ids are
\* still attributed to the area and are not held.
SyncEqualsLedgerButFailedReleases ==
    SyncRanAlone =>
        /\ players = acquired \ g.relFailed
        /\ g.relFailed \subseteq acquired

SyncFailedReleaseWitness ==
    SyncRanAlone /\ g.relFailed # {} /\ g.fqDone # {} /\ players # {}

SyncRanTwice ==
    /\ Returned("sync") /\ ~g.disturbed
    /\ g.prev.op = "sync" /\ g.prev.stable

SyncDidNothing ==
    /\ \A q \in PlayerIds : g.relCalls[q] = 0
    /\ g.fqDone = {}
    /\ players = g.P
    /\ acquired = g.A

ForcedQuitLeavesNothing ==
    (Returned("quit") /\ cur.force) =>
        /\ cur.ok
        /\ cur.p \notin players
        /\ Unsubscribed(cur.p)

StopProcessedAll ==
    /\ g.unsubscribed = g.P
    /\ g.stopCalled = g.P
    /\ \A q \in g.P : Unsubscribed(q)

\* C9: stop() on a running area has unsubscribed every held player and
\* called stop() on every held player before the channel is destroyed, and
\* also when the stop() of one of them fails.
StopProcessesEveryPlayer ==
    (cur.op = "stop"
     /\ (channel = NoChannel
         \/ (cur.step = "done" /\ cur.err = "player.stop")))
        => StopProcessedAll

StopOneFailsWitness ==
    /\ Returned("stop") /\ cur.err = "player.stop"
    /\ Cardinality(g.P) = 2 /\ Cardinality(g.stopFailed) = 1
    /\ \E q \in g.P : g.H[q] # {}

\* C10: syncAcquiredPlayers() returns only when every correction has
\* settled; it succeeds whichever corrections fail, and fails exactly when
\* the fetch of the manager's set fails, with no correction issued and
\* players unchanged.
SyncWaitsAndToleratesFailures ==
    Returned("sync") =>
        /\ cur.rel = {} /\ cur.fq = {}
        /\ cur.ok <=> g.failedAt # "getAcquiredPlayerIds"
        /\ ~cur.ok => /\ \A q \in PlayerIds : g.relCalls[q] = 0
                      /\ g.fqDone = {}
                      /\ players = g.P
        /\ cur.ok => /\ \A q \in g.L \ g.P : g.relCalls[q] = 1
                     /\ g.P \ g.L \subseteq g.fqDone

SyncToleratesWitness ==
    /\ Returned("sync") /\ cur.ok
    /\ Cardinality(g.relFailed) = 2

\* savePlayers has gone past the reconciliation it starts with
SaveIssued ==
    /\ cur.op = "serialize"
    /\ \/ cur.step \in {"saving", "hook"}
       \/ cur.step = "done" /\ cur.err # "getAcquiredPlayerIds"

\* C11: savePlayers() first reconciles and then calls savePlayer for every
\* player held after the reconciliation; the saves that fail neither keep
\* another held player from being saved nor fail savePlayers(), and
\* savePlayers() is over only when every save has settled.
SavePlayersIsolatesFailures ==
    SaveIssued =>
        /\ cur.rel = {} /\ cur.fq = {}
        /\ players = g.P \cap g.L
        /\ g.saveCalls = players
        /\ g.saveFailed \subseteq g.saveCalls \ cur.sv
        /\ cur.err # "savePlayer"
        /\ cur.step # "saving" => cur.sv = {}

SaveOneFailsWitness ==
    /\ Returned("serialize") /\ cur.ok
    /\ Cardinality(g.saveCalls) = 3 /\ Cardinality(g.saveFailed) = 2

NormalQuitFailed == Returned("quit") /\ ~cur.force /\ ~cur.ok

\* quit(p) has done nothing yet but call beforeQuit
QuitUntouched ==
    /\ players = g.P /\ playerEventHandlers = g.H
    /\ g.unsubscribed = {} /\ g.stopCalled = {} /\ g.saveCalls = {}
    /\ \A q \in PlayerIds : g.relCalls[q] = 0

\* C12 as stated: a quit(p) without force that fails, at whichever step,
\* has not removed p from players.
FailedQuitKeepsPlayer == NormalQuitFailed => cur.p \in players

\* C12 as amended: a quit(p) without force that fails at beforeQuit, at
\* player.stop(), at the save or destroy, or at the release has not
\* removed p from players; a failed beforeQuit has changed nothing, and a
\* failed stop or release is the error quit returns.  A quit that fails
\* at onQuit has removed p.
FailedQuitBeforeRemovalKeepsPlayer ==
    /\ NormalQuitFailed =>
          /\ cur.err # "onQuit" => cur.p \in players
          /\ cur.err = "onQuit" => cur.p \notin players
          /\ cur.err = "beforeQuit" => QuitUntouched
    /\ (cur.op = "quit" /\ cur.step # "stop" /\ cur.p \in g.stopFailed)
          => Returned("quit") /\ cur.err = "player.stop"
    /\ (cur.op = "quit" /\ cur.p \in g.relFailed)
          => Returned("quit") /\ cur.err = "releasePlayer"
                /\ cur.p \in players

FailedQuitWitness ==
    /\ NormalQuitFailed /\ cur.err = "releasePlayer"
    /\ cur.p \in players /\ cur.p \in g.saveCalls

Subscribed(q) == playerEventHandlers[q] = Events /\ listening[q] = Events

\* C13: whenever no operation is in flight, the events of an id are
\* recorded and attached exactly when the id is in players and the area is
\* running, and otherwise none of them is.
SubscribedIffHeldAndRunning ==
    cur = Idle =>
        \A q \in PlayerIds :
            IF q \in players /\ lifecycle = "running"
              THEN Subscribed(q) ELSE Unsubscribed(q)

\* C14: when the manager's record changes only through the area's own
\* acquire and release calls, every id in players is attributed to the area
\* by the manager whenever no operation is in flight.
HeldPlayersAreAcquired == cur = Idle => players \subseteq acquired

\* the step that is quit(p, {force: true}), called by the host or by the
\* reconciliation
ForcedQuitOf(p) ==
    \/ cur = Idle /\ cur'.op = "quit" /\ cur'.force /\ cur'.p = p
    \/ cur.step = "corrections" /\ p \in cur.fq /\ p \notin cur'.fq

\* no call of the manager, of the player or of a hook is made
NoCallMade ==
    /\ acquired' = acquired /\ pendingRelease' = pendingRelease
    /\ g'.saveCalls = IF cur = Idle THEN {} ELSE g.saveCalls
    /\ g'.stopCalled = {} /\ g'.hooks = {}
    /\ \A q \in PlayerIds :
          g'.relCalls[q] = IF cur = Idle THEN 0 ELSE g.relCalls[q]

\* What a forced quit of p may change: p's own entries, and nothing else.
ForcedQuitTouches(p) ==
    ForcedQuitOf(p) =>
        /\ NoCallMade
        /\ cur'.op = "quit" => cur'.step = "done" /\ cur'.ok
        /\ \A q \in PlayerIds \ {p} :
              /\ q \in players' <=> q \in players
              /\ playerEventHandlers'[q] = playerEventHandlers[q]
              /\ listening'[q] = listening[q]

\* C15: quit(p, {force: true}) is one synchronous step that calls neither
\* the manager (release, save) nor the player (stop, destroy) nor
\* beforeQuit/onQuit; the manager's record and every other id's entry in
\* players and in the event table stay as they are.
ForcedQuitIsLocal == [][\A p \in PlayerIds : ForcedQuitTouches(p)]_vars

ForcedQuitWitness ==
    /\ Returned("quit") /\ cur.force
    /\ cur.p \in g.P /\ cur.p \notin players /\ cur.p \in acquired
    /\ \E q \in players : Subscribed(q)

\* C16: every player savePlayers() saves is in the set the manager
\* attributed to the area at the fetch of that call's reconciliation, and
\* every id that was held but is not in that set has been removed from
\* players by force before the first save is issued.
NoOrphanIsSaved ==
    (cur.op = "serialize" /\ (cur.step = "save" \/ SaveIssued)) =>
        /\ g.saveCalls \subseteq g.L
        /\ players \cap (g.P \ g.L) = {}
        /\ g.P \ g.L \subseteq g.fqDone

OrphanNotSavedWitness ==
    /\ Returned("serialize") /\ cur.ok
    /\ g.P \ g.L # {} /\ g.saveCalls # {}

NormalQuit == cur.op = "quit" /\ ~cur.force /\ cur.p \in g.P

\* C17: in quit(p) without force each step starts only when the step
\* before it has succeeded, in the order beforeQuit, unsubscribe,
\* player.stop(), save or destroy, release, removal, onQuit: the lock is
\* released only after the save (or the destroy) has succeeded, and p is
\* removed only after the release has succeeded.
QuitStepsInOrder ==
    NormalQuit =>
        /\ g.unsubscribed # {} => "beforeQuit" \in g.hooks
        /\ g.stopCalled # {} => g.unsubscribed = {cur.p}
        /\ g.persisted # "no" =>
              g.stopCalled = {cur.p} /\ g.stopFailed = {}
        /\ g.relCalls[cur.p] > 0 =>
              /\ g.persisted = IF cur.remove THEN "destroyed" ELSE "saved"
              /\ g.relCalls[cur.p] = 1
        /\ cur.p \notin players =>
              g.relCalls[cur.p] = 1 /\ g.relFailed = {}
        /\ "onQuit" \in g.hooks => cur.p \notin players

QuitInOrderWitness ==
    /\ NormalQuit /\ Returned("quit") /\ cur.ok
    /\ g.persisted = "destroyed" /\ "onQuit" \in g.hooks

\* C18 as stated: with two areas on one player manager that grants the
\* lock of a player to one area at a time, whatever the interleaving of the
\* steps of their joins and quits without force, no id is in players of
\* both.
NoPlayerInTwoAreas == players["a1"] \cap players["a2"] = {}

\* C18 as amended: an id is in players of both areas only while the quit of
\* one of them has released its lock and not yet deleted it from players.
NoPlayerInTwoAreasButQuitting ==
    \A p \in players["a1"] \cap players["a2"] :
        \E a \in Areas : TwoAt(a, "quit", "delete") /\ cur[a].p = p

\* one area holds p after the other area's join of p was refused the lock
TwoAreasContendWitness ==
    \E a, b \in Areas :
        /\ a # b
        /\ TwoAt(a, "join", "done") /\ cur[a].err = "acquirePlayer"
        /\ cur[a].p \in players[b] /\ cur[a].p \notin players[a]
        /\ cur[b].op = "quit" /\ cur[b].p = cur[a].p

\* the reconciliation fetched the manager's set while the join in flight
\* had acquired the lock of its player and not yet inserted the player
FetchedDuringJoin == cur.bg.raced

\* C19: when syncAcquiredPlayers() runs between the acquirePlayer of a
\* join(p) and the insertion of p into players, and both have ended with
\* the join successful and p in players, the manager still attributes p to
\* the area.
RacingSyncKeepsJoinedLock ==
    (/\ At("join", "done") /\ cur.ok
     /\ cur.bg.step = "done" /\ FetchedDuringJoin
     /\ cur.p \in players)
        => cur.p \in acquired

\* C20: on a running area, whenever no operation is in flight, every
\* member of the channel, that is every player notifyAll reaches, is in
\* players.
MembersAreHeld == cur = Idle => notifyAll \subseteq players

====
